---- MODULE Spec2Model ----
(***************************************************************************)
(* Model of keyb_layout_switcher (src/src/main.rs): a polling loop that    *)
(* enumerates the USB devices, derives an edge-triggered Signal from the   *)
(* presence of the device 445a:1121, and runs setxkbmap when the signal    *)
(* differs from the last applied one.                                      *)
(***************************************************************************)
EXTENDS Integers, Sequences, FiniteSets, TLC

(* ---------------------------------------------------------------- bounds *)

\* Largest number of devices in one enumeration snapshot.
MaxDevices == 2

(* ------------------------------------------------------------- enum Signal *)

ChangeAzerty == "ChangeAzerty"
ChangeQwerty == "ChangeQwerty"
NothingChanged == "NothingChanged"

Signal == {ChangeAzerty, ChangeQwerty, NothingChanged}

(* --------------------------------------------------- the USB environment *)

\* 16-bit identifiers on the bus: 0x445a and 0x1121, in either position.
VendorIds == {17498, 4385}
ProductIds == {4385, 17498}

\* A device of the list; readable = FALSE when device_descriptor() fails.
\* The bus carries the target 445a:1121, whose descriptor read may fail, and
\* the device 1121:445a.
Device == {d \in [vendor_id : VendorIds, product_id : ProductIds, readable : BOOLEAN] :
              d.vendor_id # d.product_id /\ (d.readable \/ d.vendor_id = 17498)}

RECURSIVE SeqsUpTo(_, _)
SeqsUpTo(S, n) ==
    IF n = 0 THEN {<<>>}
    ELSE LET shorter == SeqsUpTo(S, n - 1)
         IN shorter \cup {Append(s, d) : s \in {t \in shorter : Len(t) = n - 1}, d \in S}

\* The device lists rusb can return.
Snapshots == SeqsUpTo(Device, MaxDevices)

\* What the USB backend does on one enumeration: Context::new() fails,
\* Context::devices() fails, or a device list is returned.
UsbBackend == {[kind |-> "ContextErr"], [kind |-> "DevicesErr"]}
              \cup {[kind |-> "List", devices |-> s] : s \in Snapshots}

\* What running "/bin/sh -c setxkbmap ..." can do: the process cannot be
\* spawned, it exits with a non-zero status, or it exits successfully.
CommandOutput == {"SpawnErr", "ExitFail", "ExitOk"}

(* ------------------------------------------------------- get_usb_devices *)

get_usb_devices(usb) ==
    IF usb.kind = "ContextErr" THEN [ok |-> FALSE, err |-> "Failed to create USB context"]
    ELSE IF usb.kind = "DevicesErr" THEN [ok |-> FALSE, err |-> "Failed to get USB devices"]
    ELSE [ok |-> TRUE, devices |-> usb.devices]

(* ------------------------------------------------ format!("{:04x}:{:04x}") *)

HexDigits == <<"0", "1", "2", "3", "4", "5", "6", "7",
               "8", "9", "a", "b", "c", "d", "e", "f">>

\* {:04x} of a 16-bit value: four lower-case hex digits, zero padded.
Hex04(n) ==
    << HexDigits[((n \div 4096) % 16) + 1],
       HexDigits[((n \div 256) % 16) + 1],
       HexDigits[((n \div 16) % 16) + 1],
       HexDigits[(n % 16) + 1] >>

FormatId(vendor_id, product_id) == Hex04(vendor_id) \o <<":">> \o Hex04(product_id)

target_id == <<"4", "4", "5", "a", ":", "1", "1", "2", "1">>

(* ------------------------------------------------ handle_usb_switch_logic *)

\* The body of the for_each closure for one device.
ScanDevice_TreatsUnreadableAsTarget(device, found) ==
    IF device.readable
    THEN (IF FormatId(device.vendor_id, device.product_id) = target_id THEN TRUE ELSE found)
    ELSE TRUE

ScanDevice(device, found) ==
    IF device.readable
    THEN (IF FormatId(device.vendor_id, device.product_id) = target_id THEN TRUE ELSE found)
    ELSE found

RECURSIVE ScanFrom(_, _, _)
ScanFrom(devs, i, found) ==
    IF i > Len(devs) THEN found
    ELSE ScanFrom(devs, i + 1, ScanDevice(devs[i], found))

\* devices.iter().for_each(...) starting from found = false.
ScanDevices(devs) == ScanFrom(devs, 1, FALSE)

\* The two edge tests and the fall-through, given found.
DetectEdge_LevelTriggered(found, connected) ==
    IF found THEN [signal |-> ChangeQwerty, is_connected |-> TRUE]
    ELSE IF connected THEN [signal |-> ChangeAzerty, is_connected |-> FALSE]
    ELSE [signal |-> NothingChanged, is_connected |-> connected]

DetectEdge_KeepsConnected(found, connected) ==
    IF found /\ ~connected THEN [signal |-> ChangeQwerty, is_connected |-> TRUE]
    ELSE IF ~found /\ connected THEN [signal |-> ChangeAzerty, is_connected |-> connected]
    ELSE [signal |-> NothingChanged, is_connected |-> connected]

DetectEdge_NeverConnects(found, connected) ==
    IF found /\ ~connected THEN [signal |-> ChangeQwerty, is_connected |-> connected]
    ELSE IF ~found /\ connected THEN [signal |-> ChangeAzerty, is_connected |-> FALSE]
    ELSE [signal |-> NothingChanged, is_connected |-> connected]

DetectEdge(found, connected) ==
    IF found /\ ~connected THEN [signal |-> ChangeQwerty, is_connected |-> TRUE]
    ELSE IF ~found /\ connected THEN [signal |-> ChangeAzerty, is_connected |-> FALSE]
    ELSE [signal |-> NothingChanged, is_connected |-> connected]

handle_usb_switch_logic_ResetsOnError(usb, connected) ==
    LET got == get_usb_devices(usb)
    IN IF ~got.ok
       THEN [ok |-> FALSE, err |-> "Failed to get USBdevices",
             signal |-> NothingChanged, is_connected |-> FALSE]
       ELSE LET edge == DetectEdge(ScanDevices(got.devices), connected)
            IN [ok |-> TRUE, err |-> "", signal |-> edge.signal,
                is_connected |-> edge.is_connected]

\* Result of one call: ok/err is the Result, signal the Ok payload, and
\* is_connected the value left in *is_connected.
handle_usb_switch_logic(usb, connected) ==
    LET got == get_usb_devices(usb)
    IN IF ~got.ok
       THEN [ok |-> FALSE, err |-> "Failed to get USBdevices",
             signal |-> NothingChanged, is_connected |-> connected]
       ELSE LET edge == DetectEdge(ScanDevices(got.devices), connected)
            IN [ok |-> TRUE, err |-> "", signal |-> edge.signal,
                is_connected |-> edge.is_connected]

(* ------------------------------------------------- change_keyboard_layout *)

\* One arm of the match: run setxkbmap <name> and map its output.
RunSetxkbmap(name, output) ==
    IF output = "SpawnErr"
    THEN [ok |-> FALSE, err |-> "Failed to change keyboard layout", command |-> name, layout |-> "none"]
    ELSE IF output = "ExitOk"
    THEN [ok |-> TRUE, err |-> "", command |-> name, layout |-> name]
    ELSE [ok |-> FALSE, err |-> "Failed to change keyboard layout to azerty",
          command |-> name, layout |-> "none"]

change_keyboard_layout_RunsOnNothingChanged(sig, output) ==
    IF sig = ChangeAzerty THEN RunSetxkbmap("fr", output)
    ELSE RunSetxkbmap("us", output)

change_keyboard_layout_FailsOnNothingChanged(sig, output) ==
    IF sig = ChangeAzerty THEN RunSetxkbmap("fr", output)
    ELSE IF sig = ChangeQwerty THEN RunSetxkbmap("us", output)
    ELSE [ok |-> FALSE, err |-> "Failed to change keyboard layout",
          command |-> "none", layout |-> "none"]

change_keyboard_layout_SwapsLayouts(sig, output) ==
    IF sig = ChangeAzerty THEN RunSetxkbmap("us", output)
    ELSE IF sig = ChangeQwerty THEN RunSetxkbmap("fr", output)
    ELSE [ok |-> TRUE, err |-> "", command |-> "none", layout |-> "none"]

\* command: the layout name handed to setxkbmap ("none": no command run);
\* layout: the layout made active ("none": the active layout is untouched).
change_keyboard_layout(sig, output) ==
    IF sig = ChangeAzerty THEN RunSetxkbmap("fr", output)
    ELSE IF sig = ChangeQwerty THEN RunSetxkbmap("us", output)
    ELSE [ok |-> TRUE, err |-> "", command |-> "none", layout |-> "none"]

(* ------------------------------------------------------------------ state *)

VARIABLES
    pc,            \* position in main's loop: "poll" (l.27), "check" (l.40), "sleep" (l.50)
    is_connected,  \* main's is_connected
    last_signal,   \* main's last_signal
    signal,        \* main's signal of the current iteration
    res,           \* result kind of the last handle_usb_switch_logic call
    res_change,    \* result kind of change_keyboard_layout in this iteration
    devices,       \* the last successfully enumerated device list
    layout,        \* the active keyboard layout
    invoked,       \* history: argument of change_keyboard_layout in this iteration
    calls,         \* history: number of change_keyboard_layout calls in this iteration
    command,       \* history: layout name handed to setxkbmap in this iteration
    slept,         \* history: the sleep ran since the last enumeration
    prev_present,  \* history: target seen in the successful snapshot before `devices`
    last_edge,     \* history: the most recent signal other than NothingChanged
    failed,        \* history: signals whose switch failed and that were not returned since
    retry,         \* history: this iteration's signal is one whose last switch failed
    polls,         \* history: parity of the number of enumerations
    backend,       \* history: what the USB backend answered to the last enumeration
    switch_failed  \* history: some change_keyboard_layout call has returned Err

vars == <<pc, is_connected, last_signal, signal, res, res_change, devices, layout,
          invoked, calls, command, slept, prev_present, last_edge, failed, retry, polls,
          backend, switch_failed>>

\* The target as the bus sees it: a readable device 0x445a:0x1121 in the list.
Present(devs) ==
    \E i \in 1..Len(devs) :
        devs[i].readable /\ devs[i].vendor_id = 17498 /\ devs[i].product_id = 4385

TypeOK ==
    /\ pc \in {"poll", "check", "sleep", "exit"}
    /\ is_connected \in BOOLEAN
    /\ last_signal \in Signal
    /\ signal \in Signal
    /\ res \in {"none", "Ok", "Err"}
    /\ res_change \in {"none", "Ok", "Err"}
    /\ devices \in Snapshots
    /\ layout \in {"initial", "fr", "us"}
    /\ invoked \in Signal \cup {"none"}
    /\ calls \in 0..1
    /\ command \in {"none", "fr", "us"}
    /\ slept \in BOOLEAN
    /\ prev_present \in BOOLEAN
    /\ last_edge \in Signal \cup {"none"}
    /\ failed \subseteq Signal
    /\ retry \in BOOLEAN
    /\ polls \in 0..1
    /\ backend \in {"none", "ContextErr", "DevicesErr", "List"}
    /\ switch_failed \in BOOLEAN

Init ==
    /\ pc = "poll"
    /\ is_connected = FALSE
    /\ last_signal = NothingChanged
    /\ signal = NothingChanged
    /\ res = "none"
    /\ res_change = "none"
    /\ devices = <<>>
    /\ layout = "initial"
    /\ invoked = "none"
    /\ calls = 0
    /\ command = "none"
    /\ slept = FALSE
    /\ prev_present = FALSE
    /\ last_edge = "none"
    /\ failed = {}
    /\ retry = FALSE
    /\ polls = 0
    /\ backend = "none"
    /\ switch_failed = FALSE

(* ---------------------------------------------------------------- actions *)

\* Lines 27-34: the detector call fails; the error is logged and the loop
\* continues without sleeping.
EnumFail(usb) ==
    /\ pc = "poll"
    /\ LET r == handle_usb_switch_logic(usb, is_connected)
       IN /\ ~r.ok
          /\ is_connected' = r.is_connected
          /\ res' = "Err"
    /\ signal' = NothingChanged
    /\ pc' = "poll"
    /\ res_change' = "none"
    /\ invoked' = "none"
    /\ calls' = 0
    /\ command' = "none"
    /\ slept' = FALSE
    /\ polls' = 1 - polls
    /\ backend' = usb.kind
    /\ retry' = FALSE
    /\ UNCHANGED <<last_signal, devices, layout, prev_present, last_edge, failed,
                   switch_failed>>

\* Lines 27-38: the detector call succeeds and its signal is kept.
PollOk(usb) ==
    /\ pc = "poll"
    /\ LET r == handle_usb_switch_logic(usb, is_connected)
       IN /\ r.ok
          /\ is_connected' = r.is_connected
          /\ signal' = r.signal
          /\ res' = "Ok"
          /\ last_edge' = IF r.signal # NothingChanged THEN r.signal ELSE last_edge
          /\ retry' = (r.signal \in failed)
          /\ failed' = failed \ {r.signal}
    /\ devices' = usb.devices
    /\ prev_present' = Present(devices)
    /\ pc' = "check"
    /\ res_change' = "none"
    /\ invoked' = "none"
    /\ calls' = 0
    /\ command' = "none"
    /\ slept' = FALSE
    /\ polls' = 1 - polls
    /\ backend' = usb.kind
    /\ UNCHANGED <<last_signal, layout, switch_failed>>

\* Line 40.
ShouldSwitch_Always(sig, last) == TRUE

ShouldSwitch_OnlyLayoutSignals(sig, last) == sig # last /\ sig # NothingChanged

ShouldSwitch(sig, last) == sig # last

\* Where the loop goes after a failed switch (line 45: continue).
AfterSwitchError_Exits == "exit"

AfterSwitchError_Sleeps == "sleep"

AfterSwitchError == "poll"

\* last_signal after a failed switch (line 45 skips line 48).
LastSignalOnError_Advances(sig, last) == sig

LastSignalOnError(sig, last) == last

\* Lines 40-49, signal != last_signal: the switcher is called.
Switch(output) ==
    /\ pc = "check"
    /\ ShouldSwitch(signal, last_signal)
    /\ LET r == change_keyboard_layout(signal, output)
       IN /\ invoked' = signal
          /\ calls' = calls + 1
          /\ command' = r.command
          /\ layout' = IF r.layout # "none" THEN r.layout ELSE layout
          /\ res_change' = IF r.ok THEN "Ok" ELSE "Err"
          /\ last_signal' = IF r.ok THEN signal ELSE LastSignalOnError(signal, last_signal)
          /\ pc' = IF r.ok THEN "sleep" ELSE AfterSwitchError
          /\ failed' = IF r.ok THEN failed ELSE failed \cup {signal}
          /\ switch_failed' = (switch_failed \/ ~r.ok)
    /\ UNCHANGED <<is_connected, signal, res, devices, slept, prev_present, last_edge,
                   retry, polls, backend>>

\* Line 40, signal == last_signal: the if body is skipped.
Skip ==
    /\ pc = "check"
    /\ ~ShouldSwitch(signal, last_signal)
    /\ pc' = "sleep"
    /\ UNCHANGED <<is_connected, last_signal, signal, res, res_change, devices, layout,
                   invoked, calls, command, slept, prev_present, last_edge, failed,
                   retry, polls, backend, switch_failed>>

\* Line 50.
Sleep ==
    /\ pc = "sleep"
    /\ slept' = TRUE
    /\ pc' = "poll"
    /\ UNCHANGED <<is_connected, last_signal, signal, res, res_change, devices, layout,
                   invoked, calls, command, prev_present, last_edge, failed, retry, polls,
                   backend, switch_failed>>

Next ==
    \/ \E usb \in UsbBackend : EnumFail(usb)
    \/ \E usb \in UsbBackend : PollOk(usb)
    \/ \E output \in CommandOutput : Switch(output)
    \/ Skip
    \/ Sleep

Spec == Init /\ [][Next]_vars

\* The loop is the only thread of the process and always gets to run.
FairSpec == Spec /\ WF_vars(Next)

(* ----------------------------------------------------------------- claims *)

LayoutSignals == {ChangeAzerty, ChangeQwerty}

\* A step that is a successful detector call (lines 27, 35-37).
DetectorReturned == pc = "poll" /\ res' = "Ok" /\ pc' = "check"

\* A step that is a detector call whose enumeration failed.
EnumerationFailed == pc = "poll" /\ polls' # polls /\ backend' # "List"

\* A step that is a detector call whose enumeration returned a list.
EnumerationSucceeded == pc = "poll" /\ polls' # polls /\ backend' = "List"

\* C1: edge-triggering. After every successful poll the signal is
\* ChangeQwerty exactly when the snapshot holds the target (a readable
\* 445a:1121) and the previous successfully enumerated snapshot did not,
\* ChangeAzerty exactly on the reverse, and NothingChanged otherwise;
\* enumeration failures in between do not count as snapshots.
C1_EdgeTriggered ==
    res = "Ok" =>
        signal = IF Present(devices) /\ ~prev_present THEN ChangeQwerty
                 ELSE IF ~Present(devices) /\ prev_present THEN ChangeAzerty
                 ELSE NothingChanged

\* A detach edge: the target was in the previous snapshot and the current
\* one lists only other devices.
C1_Witness ==
    /\ pc = "check"
    /\ signal = ChangeAzerty
    /\ prev_present
    /\ Len(devices) > 0
    /\ ~Present(devices)

\* C2: the detector's transition table over (found, ConnectionState):
\* (found, not connected) gives ChangeQwerty and sets the state, (not found,
\* connected) gives ChangeAzerty and clears it, the two steady cases give
\* NothingChanged and leave the state alone.
C2_TransitionTable ==
    [][DetectorReturned =>
          LET found == Present(devices')
          IN /\ (found /\ ~is_connected) => (signal' = ChangeQwerty /\ is_connected' = TRUE)
             /\ (~found /\ is_connected) => (signal' = ChangeAzerty /\ is_connected' = FALSE)
             /\ (found = is_connected) =>
                    (signal' = NothingChanged /\ is_connected' = is_connected)]_vars

\* The steady state with the target attached: a repeated call returned
\* NothingChanged and the state is still true.
C2_Witness ==
    /\ pc = "check"
    /\ prev_present
    /\ Present(devices)
    /\ is_connected
    /\ signal = NothingChanged

\* C3 as stated: change_keyboard_layout is never called with NothingChanged.
C3_NeverInvokedWithNothingChanged == invoked # NothingChanged

\* C3 amended: a call with NothingChanged happens only for a NothingChanged
\* poll while last_signal is a layout signal; it runs no command, leaves the
\* layout alone and succeeds.  A setxkbmap command runs only for
\* ChangeAzerty or ChangeQwerty.
C3_CommandOnlyForLayoutSignals ==
    [][pc = "check" =>
          /\ (invoked' = NothingChanged =>
                 /\ signal = NothingChanged
                 /\ last_signal \in LayoutSignals
                 /\ command' = "none"
                 /\ layout' = layout
                 /\ res_change' = "Ok")
          /\ (command' # "none" => invoked' \in LayoutSignals)]_vars

\* The poll after a successful switch to qwerty, device still attached:
\* the switcher was called with NothingChanged.
C3_Witness ==
    /\ invoked = NothingChanged
    /\ is_connected
    /\ layout = "us"
    /\ command = "none"

\* C4: a failed switch leaves last_signal as it was, and the next iteration
\* whose detector signal is the failed one calls the switcher with it again.
C4_RetryOnSwitchFailure ==
    [][pc = "check" =>
          /\ (res_change' = "Err" => last_signal' = last_signal)
          /\ (retry => invoked' = signal)]_vars

\* ChangeQwerty failed earlier, was returned again and has been retried.
C4_Witness ==
    /\ retry
    /\ invoked = ChangeQwerty
    /\ res_change = "Ok"

\* C5: debounce. In an iteration with a successful enumeration the switcher
\* is called exactly when the signal differs from last_signal, with that
\* signal, and at most once.
C5_Debounce ==
    [][pc = "check" =>
          /\ (invoked' # "none") <=> (signal # last_signal)
          /\ invoked' \in {"none", signal}
          /\ calls' = IF signal # last_signal THEN 1 ELSE 0]_vars

\* ChangeQwerty was applied, a detach switch failed, and the re-attach
\* signal equal to last_signal was not applied again.
C5_Witness ==
    /\ pc = "sleep"
    /\ signal = ChangeQwerty
    /\ last_signal = ChangeQwerty
    /\ invoked = "none"
    /\ calls = 0

\* C6: an iteration whose enumeration fails produces no signal, does not
\* call the switcher, leaves is_connected, last_signal and the layout as
\* they were, and ends back at the detector call.
C6_EnumerationFailureChangesNothing ==
    [][EnumerationFailed =>
          /\ res' = "Err"
          /\ is_connected' = is_connected
          /\ last_signal' = last_signal
          /\ layout' = layout
          /\ signal' = NothingChanged
          /\ invoked' = "none"
          /\ calls' = 0
          /\ command' = "none"
          /\ pc' = "poll"]_vars

\* An enumeration failed after qwerty had been applied with the device
\* attached: both pieces of state are still set.
C6_Witness ==
    /\ res = "Err"
    /\ pc = "poll"
    /\ is_connected
    /\ last_signal = ChangeQwerty

\* C7: state consistency. is_connected is true exactly when the most recent
\* signal other than NothingChanged was ChangeQwerty, and false while none
\* has been emitted.
C7_StateConsistency == is_connected <=> (last_edge = ChangeQwerty)

\* After a detach edge and a later failed detector call.
C7_Witness ==
    /\ last_edge = ChangeAzerty
    /\ ~is_connected
    /\ res = "Err"

\* C8: alternation. Every emitted signal other than NothingChanged differs
\* from the previous such signal, and the first one is ChangeQwerty.
C8_Alternation ==
    [][(DetectorReturned /\ signal' # NothingChanged) =>
          /\ signal' # last_edge
          /\ (last_edge = "none" => signal' = ChangeQwerty)]_vars

\* A second ChangeQwerty, emitted after an intervening ChangeAzerty whose
\* switch had failed.
C8_Witness ==
    /\ pc = "check"
    /\ signal = ChangeQwerty
    /\ ChangeAzerty \in failed

\* C9: the loop never stops: in every behaviour the controller enumerates
\* again and again (polls flips on every enumeration and on nothing else),
\* also after an enumeration or a switcher failure, so no reachable state is
\* terminal.
C9_RunsForever == []<><<polls' # polls>>_vars

\* The loop is back at the detector call right after a failed switch.
C9_Witness ==
    /\ pc = "poll"
    /\ res_change = "Err"
    /\ invoked = ChangeQwerty
    /\ ~slept

\* The devices of a list whose descriptor can be read.
ReadableDevices(devs) == SelectSeq(devs, LAMBDA d : d.readable)

\* C10: when enumeration succeeds the detector call succeeds, and its
\* signal and state are those of the list restricted to the devices with a
\* readable descriptor; a list with no readable target never gives
\* ChangeQwerty.
C10_UnreadableDevicesSkipped ==
    [][EnumerationSucceeded =>
          LET r == DetectEdge(Present(ReadableDevices(devices')), is_connected)
          IN /\ res' = "Ok"
             /\ signal' = r.signal
             /\ is_connected' = r.is_connected
             /\ ((\A i \in 1..Len(devices') :
                     ~(devices'[i].readable /\ devices'[i].vendor_id = 17498
                                            /\ devices'[i].product_id = 4385))
                    => signal' # ChangeQwerty)]_vars

\* The target is attached but its descriptor cannot be read: the poll
\* reports a detach.
C10_Witness ==
    /\ pc = "check"
    /\ signal = ChangeAzerty
    /\ \E i \in 1..Len(devices) :
          /\ ~devices[i].readable
          /\ devices[i].vendor_id = 17498
          /\ devices[i].product_id = 4385

\* C11: change_keyboard_layout called with NothingChanged returns Ok, runs
\* no setxkbmap command and leaves the active layout as it was; a call that
\* returns Err is a call with ChangeAzerty or ChangeQwerty whose command was
\* attempted.
C11_NothingChangedIsNoOp ==
    [][(pc = "check" /\ invoked' # "none") =>
          /\ (invoked' = NothingChanged =>
                 (res_change' = "Ok" /\ command' = "none" /\ layout' = layout))
          /\ (res_change' = "Err" =>
                 (invoked' \in LayoutSignals /\ command' # "none" /\ layout' = layout))]_vars

\* A call with NothingChanged made while azerty was the active layout.
C11_Witness ==
    /\ invoked = NothingChanged
    /\ res_change = "Ok"
    /\ layout = "fr"
    /\ ~is_connected

\* C12: last_signal changes only in a step in which the switcher was called
\* and returned Ok, and then becomes that iteration's detector signal; a
\* failed enumeration, an equal signal and a failed switch leave it alone.
C12_AdvancedOnlyOnSuccess ==
    [][(last_signal' # last_signal) =>
          /\ pc = "check"
          /\ signal # last_signal
          /\ invoked' = signal
          /\ res_change' = "Ok"
          /\ last_signal' = signal]_vars

\* last_signal has just advanced from ChangeQwerty to ChangeAzerty.
C12_Witness ==
    /\ pc = "sleep"
    /\ last_signal = ChangeAzerty
    /\ invoked = ChangeAzerty
    /\ res_change = "Ok"
    /\ ChangeQwerty \notin failed
    /\ layout = "fr"

\* The signal of the most recent successful layout switch, NothingChanged
\* while no layout has been applied.
LastAppliedLayoutSignal ==
    IF layout = "us" THEN ChangeQwerty
    ELSE IF layout = "fr" THEN ChangeAzerty
    ELSE NothingChanged

\* C13 as stated: last_signal is NothingChanged until the first successful
\* layout switch and from then on is the signal of the most recent
\* successful switch; a NothingChanged poll never sets it back.
C13_RemembersLastAppliedLayout == last_signal = LastAppliedLayoutSignal

\* C13 amended: last_signal is NothingChanged until the first successful
\* layout switch, and whenever it holds a layout signal that is the signal of
\* the most recent successful switch; it does not keep it: an iteration
\* whose detector signal is NothingChanged while last_signal is a layout
\* signal calls the switcher with NothingChanged and sets last_signal back
\* to NothingChanged.
C13_LayoutSignalOrReset ==
    [][/\ (last_signal' \in {LastAppliedLayoutSignal', NothingChanged})
       /\ ((pc = "check" /\ signal = NothingChanged /\ last_signal \in LayoutSignals) =>
              (invoked' = NothingChanged /\ last_signal' = NothingChanged))]_vars

\* qwerty is the applied layout and a later NothingChanged poll has put
\* last_signal back to NothingChanged.
C13_Witness ==
    /\ pc = "sleep"
    /\ layout = "us"
    /\ last_signal = NothingChanged
    /\ invoked = NothingChanged

\* C14 as stated: the loop is back at the detector call after a successful
\* enumeration only through the sleep, whatever the switcher did.
C14_SleepsAfterEverySuccessfulEnumeration ==
    (pc = "poll" /\ backend = "List") => slept

\* C14 amended: an iteration whose enumeration succeeds sleeps before the
\* next enumeration when the switcher was not called or returned Ok; the
\* iterations that reach the next enumeration without sleeping are those
\* whose enumeration failed and those whose switcher call failed.
C14_SleepUnlessError ==
    pc = "poll" => (slept <=> (backend = "List" /\ res_change # "Err"))

\* Back at the detector call without sleeping, after a failed switch to
\* azerty.
C14_Witness ==
    /\ pc = "poll"
    /\ backend = "List"
    /\ invoked = ChangeAzerty
    /\ res_change = "Err"
    /\ ~slept

\* C15: while no switcher call has failed, an iteration whose detector
\* signal is an edge calls the switcher once with that signal and the
\* matching setxkbmap command, an iteration without an edge runs no
\* command, and at the end of every iteration after the first edge the
\* applied layout is qwerty exactly when is_connected is true.
C15_EdgesAppliedWhenSwitcherSucceeds ==
    [][(pc = "check" /\ ~switch_failed') =>
          /\ (signal \in LayoutSignals =>
                 /\ invoked' = signal
                 /\ calls' = 1
                 /\ command' = (IF signal = ChangeQwerty THEN "us" ELSE "fr")
                 /\ layout' = command')
          /\ (signal = NothingChanged => (command' = "none" /\ layout' = layout))
          /\ (last_edge # "none" => ((layout' = "us") <=> is_connected'))
          /\ (last_edge # "none" => ((layout' = "fr") <=> ~is_connected'))]_vars

\* Attach then detach, every switch successful: the detach edge has been
\* applied and azerty is the layout of the disconnected state.
C15_Witness ==
    /\ pc = "sleep"
    /\ ~switch_failed
    /\ prev_present
    /\ ~is_connected
    /\ signal = ChangeAzerty
    /\ command = "fr"
    /\ layout = "fr"

\* The target is in the last snapshot, the last enumeration succeeded and
\* the switcher has not failed in the current iteration.
StableAttached == backend = "List" /\ Present(devices) /\ res_change # "Err"

\* The same with the target absent after a detach edge.
StableDetached ==
    /\ backend = "List"
    /\ ~Present(devices)
    /\ res_change # "Err"
    /\ last_edge = ChangeAzerty

\* C16: eventual convergence. If from some point on the target stays
\* attached, every enumeration succeeds and no switcher call fails, then
\* from some point on the applied layout is qwerty, also when the switch of
\* the attach edge had failed; symmetrically azerty once the target stays
\* detached after a detach edge.
C16_EventualConvergence ==
    /\ (<>[]StableAttached) => <>[](layout = "us")
    /\ (<>[]StableDetached) => <>[](layout = "fr")

====
